---- MODULE Spec2Model ----
(***************************************************************************)
(* Model of the client conversation session controller of the chat widget  *)
(* (AgentComponent and its Identity Store helpers).                        *)
(*                                                                         *)
(* A JavaScript string is a sequence of text pieces; whitespace pieces are *)
(* single characters, so that trim() works on them.  A JavaScript value is *)
(* a tagged record, so that truthiness and property access are computed as *)
(* the language computes them.                                             *)
(***************************************************************************)
EXTENDS Integers, Sequences, FiniteSets, TLC

(***************************** bounds **************************************)
\* fetch calls issued over one run
MaxSubmits == 2
\* clearings of a storage scope over one run
MaxClears == 2

(************************* JavaScript values *******************************)
JNull == [t |-> "null"]
JUndefined == [t |-> "undefined"]
JStr(s) == [t |-> "str", v |-> s]
JNum(n) == [t |-> "num", v |-> n]
JBool(b) == [t |-> "bool", v |-> b]
JObj(f) == [t |-> "obj", f |-> f]

EmptyStr == << >>

\* ToBoolean
Truthy(x) ==
    CASE x.t = "null" -> FALSE
      [] x.t = "undefined" -> FALSE
      [] x.t = "str" -> Len(x.v) > 0
      [] x.t = "num" -> x.v # 0
      [] x.t = "bool" -> x.v
      [] OTHER -> TRUE

\* o.k throws a TypeError exactly when o is null or undefined
CanGet(o) == o.t \notin {"null", "undefined"}

\* o.k for an o that does not throw
Get(o, k) ==
    IF o.t = "obj" /\ k \in DOMAIN o.f THEN o.f[k] ELSE JUndefined

WhiteSpace == {" ", "\t", "\n"}

RECURSIVE TrimStart(_)
TrimStart(s) ==
    IF Len(s) > 0 /\ Head(s) \in WhiteSpace THEN TrimStart(Tail(s)) ELSE s

RECURSIVE TrimEnd(_)
TrimEnd(s) ==
    IF Len(s) > 0 /\ s[Len(s)] \in WhiteSpace
    THEN TrimEnd(SubSeq(s, 1, Len(s) - 1))
    ELSE s

\* String.prototype.trim
Trim(s) == TrimEnd(TrimStart(s))

\* the decimal digits of a natural number, as template literals render it
RECURSIVE Digits(_)
Digits(n) ==
    LET d == <<"0", "1", "2", "3", "4", "5", "6", "7", "8", "9">>
    IN IF n < 10 THEN <<d[n + 1]>> ELSE Digits(n \div 10) \o <<d[(n % 10) + 1]>>

(*************************** Identity Store ********************************)
\* the identifier length cap of getSessionId / getUserId
MaxIdLen == 32

SessionKey == "sessionId"
UserKey == "userId"
StorageKeys == {SessionKey, UserKey}

\* the canonical text of a version-4 UUID: 8-4-4-4-12 with the version and
\* variant digits fixed and the other digits random
UuidText(h) ==
    [i \in 1..36 |->
        IF i \in {9, 14, 19, 24} THEN "-"
        ELSE IF i = 15 THEN "4"
        ELSE IF i = 20 THEN "8"
        ELSE h]

\* uuidv4() never returns the same value twice: its n-th call in a run
\* returns the n-th of these (the component reads nothing of a UUID but its
\* hyphens and its length)
HexDigits == <<"a", "b", "c", "d", "e", "f", "0", "1", "2", "3", "5", "6", "7", "9">>

NthUuid(n) == UuidText(HexDigits[n])

\* s.replace(/-/g, "")
RemoveHyphens(s) == LET NotHyphen(c) == c # "-" IN SelectSeq(s, NotHyphen)

\* s.slice(0, n)
SliceTo(s, n) == SubSeq(s, 1, IF Len(s) < n THEN Len(s) ELSE n)

\* uuidv4().replace(/-/g, "").slice(0, 32)
FreshIdKeepHyphens(uuid) == SliceTo(uuid, MaxIdLen)

FreshId(uuid) == SliceTo(RemoveHyphens(uuid), MaxIdLen)

\* the stored value when it is usable, else null (the && / ?: line)
UsableIdNoCap(item) == IF Truthy(item) THEN item ELSE JNull

UsableId(item) ==
    IF Truthy(item) /\ Len(item.v) <= MaxIdLen THEN item ELSE JNull

\* One call of an identifier getter on `storage` under `key`.  The result
\* holds the returned string, the storage afterwards, and what the call did.
GetIdNoPersist(win, storage, key, uuid) ==
    LET id == UsableId(storage[key])
    IN IF ~Truthy(id)
       THEN [ret |-> FreshId(uuid), storage |-> storage,
             reads |-> <<key>>, writes |-> << >>, generated |-> 1]
       ELSE [ret |-> id.v, storage |-> storage,
             reads |-> <<key>>, writes |-> << >>, generated |-> 0]

GetIdAlwaysWrites(win, storage, key, uuid) ==
    IF ~win
    THEN [ret |-> EmptyStr, storage |-> storage,
          reads |-> << >>, writes |-> << >>, generated |-> 0]
    ELSE LET id == UsableId(storage[key])
         IN IF ~Truthy(id)
            THEN [ret |-> FreshId(uuid),
                  storage |-> [storage EXCEPT ![key] = JStr(FreshId(uuid))],
                  reads |-> <<key>>, writes |-> <<key>>, generated |-> 1]
            ELSE [ret |-> id.v, storage |-> [storage EXCEPT ![key] = id],
                  reads |-> <<key>>, writes |-> <<key>>, generated |-> 0]

GetIdNoWindowGuard(win, storage, key, uuid) ==
    LET id == UsableId(storage[key])
    IN IF ~Truthy(id)
       THEN [ret |-> FreshId(uuid),
             storage |-> [storage EXCEPT ![key] = JStr(FreshId(uuid))],
             reads |-> <<key>>, writes |-> <<key>>, generated |-> 1]
       ELSE [ret |-> id.v, storage |-> storage,
             reads |-> <<key>>, writes |-> << >>, generated |-> 0]

GetId(win, storage, key, uuid) ==
    IF ~win
    THEN [ret |-> EmptyStr, storage |-> storage,
          reads |-> << >>, writes |-> << >>, generated |-> 0]
    ELSE LET id == UsableId(storage[key])
         IN IF ~Truthy(id)
            THEN [ret |-> FreshId(uuid),
                  storage |-> [storage EXCEPT ![key] = JStr(FreshId(uuid))],
                  reads |-> <<key>>, writes |-> <<key>>, generated |-> 1]
            ELSE [ret |-> id.v, storage |-> storage,
                  reads |-> <<key>>, writes |-> << >>, generated |-> 0]

\* getSessionId reads and writes sessionStorage under "sessionId"
GetSessionId(win, ss, uuid) == GetId(win, ss, SessionKey, uuid)

\* getUserId reads and writes localStorage under "userId"
GetUserId(win, ls, uuid) == GetId(win, ls, UserKey, uuid)

(************************* Request Controller ******************************)
\* the four AgentComponent variants of the repository
Variants == {"index", "part001a", "part001b", "part002"}

\* only the second component of part_001 reads the body of a failed response
ReadsErrorText(v) == v = "part001b"

FallbackText == <<"No valid response received from agent.">>

\* Response.ok
ResOk(status) == status >= 200 /\ status <= 299

\* the state a component instance starts with (the useState initial values)
InitialComponent ==
    [message |-> EmptyStr, conversation |-> << >>, error |-> JNull,
     isLoading |-> FALSE, sessionId |-> EmptyStr, userId |-> EmptyStr]

\* the body handed to fetch (before JSON.stringify)
Payload(userMessage, uid, sid) ==
    [data |-> [message |-> userMessage], stateful |-> TRUE, stream |-> FALSE,
     user_id |-> uid, session_id |-> sid, verbose |-> FALSE]

\* The synchronous part of submitMessage, up to the await of fetch, as the
\* ordered list of its effects.  uid and sid are the userId and sessionId
\* of the render whose closure is called.
SubmitOpsNoTrim(userInput, uid, sid) ==
    IF ~Truthy(JStr(Trim(userInput))) THEN << >>
    ELSE LET userMessage == [role |-> "user", content |-> JStr(userInput)]
         IN << [op |-> "setMessage", v |-> EmptyStr],
               [op |-> "setError", v |-> JNull],
               [op |-> "appendConversation", v |-> userMessage],
               [op |-> "setIsLoading", v |-> TRUE],
               [op |-> "fetch", v |-> Payload(userMessage, uid, sid)] >>

SubmitOpsNoBlankCheck(userInput, uid, sid) ==
    LET userMessage == [role |-> "user", content |-> JStr(Trim(userInput))]
    IN << [op |-> "setMessage", v |-> EmptyStr],
          [op |-> "setError", v |-> JNull],
          [op |-> "appendConversation", v |-> userMessage],
          [op |-> "setIsLoading", v |-> TRUE],
          [op |-> "fetch", v |-> Payload(userMessage, uid, sid)] >>

SubmitOps(userInput, uid, sid) ==
    IF ~Truthy(JStr(Trim(userInput))) THEN << >>
    ELSE LET userMessage == [role |-> "user", content |-> JStr(Trim(userInput))]
         IN << [op |-> "setMessage", v |-> EmptyStr],
               [op |-> "setError", v |-> JNull],
               [op |-> "appendConversation", v |-> userMessage],
               [op |-> "setIsLoading", v |-> TRUE],
               [op |-> "fetch", v |-> Payload(userMessage, uid, sid)] >>

\* data.output_data && data.output_data.content ? ... : fallback
AgentReplyNoFallback(data) == Get(Get(data, "output_data"), "content")

AgentReply(data) ==
    LET od == Get(data, "output_data")
    IN IF Truthy(od) /\ Truthy(Get(od, "content"))
       THEN Get(od, "content")
       ELSE JStr(FallbackText)

\* the catch block followed by the finally block
CatchOpsNoFinally(id, msg) ==
    << [op |-> "setError", v |-> JStr(msg)], [op |-> "return", v |-> id] >>

CatchOpsNoSetError(id, msg) ==
    << [op |-> "setIsLoading", v |-> FALSE], [op |-> "return", v |-> id] >>

CatchOps(id, msg) ==
    << [op |-> "setError", v |-> JStr(msg)],
       [op |-> "setIsLoading", v |-> FALSE],
       [op |-> "return", v |-> id] >>

\* the end of the try block followed by the finally block
SuccessOpsClearsError(id, data) ==
    << [op |-> "appendConversation",
        v |-> [role |-> "agent", content |-> AgentReply(data)]],
       [op |-> "setMessage", v |-> EmptyStr],
       [op |-> "setError", v |-> JNull],
       [op |-> "setIsLoading", v |-> FALSE],
       [op |-> "return", v |-> id] >>

SuccessOps(id, data) ==
    << [op |-> "appendConversation",
        v |-> [role |-> "agent", content |-> AgentReply(data)]],
       [op |-> "setMessage", v |-> EmptyStr],
       [op |-> "setIsLoading", v |-> FALSE],
       [op |-> "return", v |-> id] >>

\* messages of the errors the platform raises
FetchFailedMsg == <<"Failed to fetch">>
BodyFailedMsg == <<"network error">>
JsonSyntaxMsg == <<"Unexpected end of JSON input">>
NullAccessMsg == <<"Cannot read properties of null (reading 'output_data')">>

\* `Server error: ${res.status}`
ServerErrorMsg(status) == <<"Server error: ">> \o Digits(status)

\* `Server error: ${res.status} - ${errorText}`
ServerErrorTextMsg(status, text) ==
    <<"Server error: ">> \o Digits(status) \o <<" ", "-", " ">> \o text

\* The continuation of submitMessage that runs when the promise request r
\* awaits settles with event ev, as the ordered list of its effects, up to
\* the next await or the end of the function.  A suspended call keeps the
\* response status only where a later step reads it (0 otherwise).
ResumeOpsEarlyReset(v, r, ev) ==
    CASE r.stage = "fetch" /\ ev.kind = "reject" -> CatchOps(r.id, ev.message)
      [] r.stage = "fetch" /\ ev.kind = "resolve" ->
            IF ~ResOk(ev.status)
            THEN IF ReadsErrorText(v)
                 THEN << [op |-> "setIsLoading", v |-> FALSE],
                         [op |-> "await",
                          v |-> [id |-> r.id, stage |-> "text", status |-> ev.status]] >>
                 ELSE CatchOps(r.id, ServerErrorMsg(ev.status))
            ELSE << [op |-> "await",
                     v |-> [id |-> r.id, stage |-> "json", status |-> 0]] >>
      [] r.stage = "text" /\ ev.kind = "reject" -> CatchOps(r.id, ev.message)
      [] r.stage = "text" /\ ev.kind = "resolve" ->
            CatchOps(r.id, ServerErrorTextMsg(r.status, ev.text))
      [] r.stage = "json" /\ ev.kind = "reject" -> CatchOps(r.id, ev.message)
      [] r.stage = "json" /\ ev.kind = "resolve" ->
            IF ~CanGet(ev.data)
            THEN CatchOps(r.id, NullAccessMsg)
            ELSE SuccessOps(r.id, ev.data)

ResumeOps(v, r, ev) ==
    CASE r.stage = "fetch" /\ ev.kind = "reject" -> CatchOps(r.id, ev.message)
      [] r.stage = "fetch" /\ ev.kind = "resolve" ->
            IF ~ResOk(ev.status)
            THEN IF ReadsErrorText(v)
                 THEN << [op |-> "await",
                          v |-> [id |-> r.id, stage |-> "text", status |-> ev.status]] >>
                 ELSE CatchOps(r.id, ServerErrorMsg(ev.status))
            ELSE << [op |-> "await",
                     v |-> [id |-> r.id, stage |-> "json", status |-> 0]] >>
      [] r.stage = "text" /\ ev.kind = "reject" -> CatchOps(r.id, ev.message)
      [] r.stage = "text" /\ ev.kind = "resolve" ->
            CatchOps(r.id, ServerErrorTextMsg(r.status, ev.text))
      [] r.stage = "json" /\ ev.kind = "reject" -> CatchOps(r.id, ev.message)
      [] r.stage = "json" /\ ev.kind = "resolve" ->
            IF ~CanGet(ev.data)
            THEN CatchOps(r.id, NullAccessMsg)
            ELSE SuccessOps(r.id, ev.data)

\* One effect applied to the component: st holds the React state and the
\* pending calls; pre is the conversation when the handler started.
ApplyOpPrepend(st, o, input, pre) ==
    CASE o.op = "setMessage" -> [st EXCEPT !.message = o.v]
      [] o.op = "setError" -> [st EXCEPT !.error = o.v]
      [] o.op = "setIsLoading" -> [st EXCEPT !.isLoading = o.v]
      [] o.op = "appendConversation" ->
            [st EXCEPT !.conversation = <<o.v>> \o @]
      [] o.op = "fetch" ->
            [st EXCEPT !.issued = @ + 1,
                       !.requests = @ \cup
                          {[id |-> st.issued + 1, payload |-> o.v,
                            stage |-> "fetch", status |-> 0,
                            input |-> input, before |-> pre]}]
      [] o.op = "await" ->
            [st EXCEPT !.requests =
                {IF r.id = o.v.id
                 THEN [r EXCEPT !.stage = o.v.stage, !.status = o.v.status]
                 ELSE r : r \in @}]
      [] o.op = "return" ->
            [st EXCEPT !.requests = {r \in @ : r.id # o.v}]

ApplyOp(st, o, input, pre) ==
    CASE o.op = "setMessage" -> [st EXCEPT !.message = o.v]
      [] o.op = "setError" -> [st EXCEPT !.error = o.v]
      [] o.op = "setIsLoading" -> [st EXCEPT !.isLoading = o.v]
      [] o.op = "appendConversation" ->
            [st EXCEPT !.conversation = Append(@, o.v)]
      [] o.op = "fetch" ->
            [st EXCEPT !.issued = @ + 1,
                       !.requests = @ \cup
                          {[id |-> st.issued + 1, payload |-> o.v,
                            stage |-> "fetch", status |-> 0,
                            input |-> input, before |-> pre]}]
      [] o.op = "await" ->
            [st EXCEPT !.requests =
                {IF r.id = o.v.id
                 THEN [r EXCEPT !.stage = o.v.stage, !.status = o.v.status]
                 ELSE r : r \in @}]
      [] o.op = "return" ->
            [st EXCEPT !.requests = {r \in @ : r.id # o.v}]

RECURSIVE ApplyOps(_, _, _, _)
ApplyOps(st, ops, input, pre) ==
    IF ops = << >> THEN st
    ELSE ApplyOps(ApplyOp(st, Head(ops), input, pre), Tail(ops), input, pre)

(****************************** inputs *************************************)
\* texts the user may type: a whitespace-only one and a padded one
Inputs == {<<" ">>, <<" ", "h", "i", "\t">>}

\* inputs a caller may hand to submit directly
DirectInputs == {<< >>, <<"\t", "\n">>, <<"h", "i">>}

\* chatConfig.suggestedPrompts (one of them)
Prompts == {<<"what's your design story?">>}

\* response statuses the proxy may answer with
Statuses == {200, 299, 500}

\* bodies of a failed response
ErrorTexts == {<<"Bad Gateway">>}

\* parsed bodies of a successful response
JsonBodies ==
    { JNull,
      JObj(<< >>),
      JObj([output_data |-> JNull]),
      JObj([output_data |-> JObj(<< >>)]),
      JObj([output_data |-> JObj([content |-> JNull])]),
      JObj([output_data |-> JObj([content |-> JStr(EmptyStr)])]),
      JObj([output_data |-> JObj([content |-> JStr(<<"hi there">>)])]),
      JObj([output_data |-> JObj([content |-> JNum(42)])]) }

\* values found in storage when the page is first opened: nothing, or a
\* usable identifier of an earlier visit
StoredVisit == {JNull, JStr(<<"u", "1">>)}

\* any value found in storage: also an empty, a longest and an over-long one
StoredInit ==
    { JNull,
      JStr(EmptyStr),
      JStr(<<"u", "1">>),
      JStr([i \in 1..MaxIdLen |-> "c"]),
      JStr([i \in 1..(MaxIdLen + 1) |-> "d"]) }

(******************************* state *************************************)
VARIABLES
    variant,         \* which AgentComponent is rendered
    mounted,         \* the mount effect has run
    message,         \* useState: the draft input text
    conversation,    \* useState: the list of messages
    error,           \* useState: null or the last error message
    isLoading,       \* useState
    sessionId,       \* useState
    userId,          \* useState
    sessionStorage,  \* window.sessionStorage
    localStorage,    \* window.localStorage
    requests,        \* the submitMessage calls suspended at an await
    timers,          \* pending setTimeout(..., 0) callbacks, in order
    issued,          \* fetch calls issued so far
    cleared,         \* clearings of a storage scope so far
    returned,        \* the last value each getter returned since its
                     \* storage was last cleared (null: none)
    generated,       \* calls of uuidv4() so far
    peer,            \* a second instance on the same localStorage (another
                     \* tab): where it is in getUserId, and its userId
    journal          \* what the last step ran

vars ==
    <<variant, mounted, message, conversation, error, isLoading, sessionId,
      userId, sessionStorage, localStorage, requests, timers, issued, cleared,
      returned, generated, peer, journal>>

identity ==
    <<sessionId, userId, sessionStorage, localStorage, returned, generated>>

\* the part of the state submitMessage works on
Controller ==
    [message |-> message, conversation |-> conversation, error |-> error,
     isLoading |-> isLoading, requests |-> requests, issued |-> issued]

SetController(st) ==
    /\ message' = st.message
    /\ conversation' = st.conversation
    /\ error' = st.error
    /\ isLoading' = st.isLoading
    /\ requests' = st.requests
    /\ issued' = st.issued

InitWith(stored) ==
    /\ variant \in Variants
    /\ mounted = FALSE
    /\ message = InitialComponent.message
    /\ conversation = InitialComponent.conversation
    /\ error = InitialComponent.error
    /\ isLoading = InitialComponent.isLoading
    /\ sessionId = InitialComponent.sessionId
    /\ userId = InitialComponent.userId
    /\ \E v \in stored :
          sessionStorage = [k \in StorageKeys |-> IF k = SessionKey THEN v ELSE JNull]
    /\ \E v \in stored :
          localStorage = [k \in StorageKeys |-> IF k = UserKey THEN v ELSE JNull]
    /\ requests = {}
    /\ timers = << >>
    /\ issued = 0
    /\ cleared = 0
    /\ returned = [session |-> JNull, user |-> JNull]
    /\ generated = 0
    /\ peer = [pc |-> "start", userId |-> EmptyStr]
    /\ journal = [fn |-> "init"]

\* the page opened on a first or a returning visit
Init == InitWith(StoredVisit)

\* the page opened over any stored values
InitIds == InitWith(StoredInit)

(****************************** actions ************************************)
\* the mount effect: setSessionId(getSessionId()); setUserId(getUserId())
Mount ==
    /\ ~mounted
    /\ LET s == GetSessionId(TRUE, sessionStorage, NthUuid(generated + 1))
           u == GetUserId(TRUE, localStorage, NthUuid(generated + s.generated + 1))
       IN /\ generated' = generated + s.generated + u.generated
          /\ sessionId' = s.ret
          /\ userId' = u.ret
          /\ sessionStorage' = s.storage
          /\ localStorage' = u.storage
          /\ returned' = [session |-> JStr(s.ret), user |-> JStr(u.ret)]
          /\ journal' = [fn |-> "mount", session |-> s, user |-> u,
                          stored |-> [session |-> sessionStorage[SessionKey],
                                      user |-> localStorage[UserKey]],
                          again |-> [session |-> returned.session # JNull,
                                     user |-> returned.user # JNull]]
    /\ mounted' = TRUE
    /\ UNCHANGED <<variant, peer, message, conversation, error, isLoading, requests,
                   timers, issued, cleared>>

\* the getters called where there is no window (the module evaluated on the
\* server, before the page reaches the browser)
ServerCall ==
    /\ ~mounted
    /\ LET s == GetSessionId(FALSE, sessionStorage, NthUuid(generated + 1))
           u == GetUserId(FALSE, localStorage, NthUuid(generated + s.generated + 1))
       IN /\ generated' = generated + s.generated + u.generated
          /\ sessionStorage' = s.storage
          /\ localStorage' = u.storage
          /\ journal' = [fn |-> "server", session |-> s, user |-> u]
    /\ UNCHANGED <<variant, peer, mounted, message, conversation, error, isLoading,
                   sessionId, userId, requests, timers, issued, cleared, returned>>

\* the input's onChange: setMessage(e.target.value)
Type(text) ==
    /\ text # message
    /\ message' = text
    /\ journal' = [fn |-> "onChange"]
    /\ UNCHANGED <<variant, peer, mounted, conversation, error, isLoading, requests,
                   timers, issued, cleared>>
    /\ UNCHANGED identity

\* one call of submitMessage(userInput) from a closure holding uid and sid
RunSubmit(userInput, uid, sid) ==
    LET ops == SubmitOps(userInput, uid, sid)
    IN /\ SetController(ApplyOps(Controller, ops, userInput, conversation))
       /\ journal' = [fn |-> "submitMessage", input |-> userInput, ops |-> ops]

\* the form's onSubmit, reachable while the submit button is enabled:
\* disabled={isLoading || !message.trim()}
HandleSubmit ==
    /\ ~(isLoading \/ ~Truthy(JStr(Trim(message))))
    /\ issued + Len(timers) < MaxSubmits
    /\ RunSubmit(message, userId, sessionId)
    /\ UNCHANGED <<variant, peer, mounted, timers, cleared>>
    /\ UNCHANGED identity

\* a suggested prompt's onClick, reachable while disabled={isLoading} is off:
\* setMessage(prompt); setTimeout(() => submitMessage(prompt), 0)
HandlePromptClick(prompt) ==
    /\ ~isLoading
    /\ issued + Len(timers) < MaxSubmits
    /\ message' = prompt
    /\ timers' = Append(timers,
                        [prompt |-> prompt, userId |-> userId, sessionId |-> sessionId])
    /\ journal' = [fn |-> "handlePromptClick", prompt |-> prompt]
    /\ UNCHANGED <<variant, peer, mounted, conversation, error, isLoading, requests,
                   issued, cleared>>
    /\ UNCHANGED identity

\* the oldest zero-delay timer fires and calls the submitMessage it captured
TimerFire ==
    /\ timers # << >>
    /\ RunSubmit(Head(timers).prompt, Head(timers).userId, Head(timers).sessionId)
    /\ timers' = Tail(timers)
    /\ UNCHANGED <<variant, peer, mounted, cleared>>
    /\ UNCHANGED identity

\* submit(input) called on the controller by any caller, whatever the
\* presentation layer shows
Submit(input) ==
    /\ mounted
    /\ Truthy(JStr(Trim(input))) => issued + Len(timers) < MaxSubmits
    /\ RunSubmit(input, userId, sessionId)
    /\ UNCHANGED <<variant, peer, mounted, timers, cleared>>
    /\ UNCHANGED identity

\* the promise request r awaits settles with ev and submitMessage runs on
Resume(r, ev) ==
    LET ops == ResumeOps(variant, r, ev)
    IN /\ SetController(ApplyOps(Controller, ops, r.input, conversation))
       /\ journal' = [fn |-> "resume", req |-> r, ev |-> ev, ops |-> ops]
       /\ UNCHANGED <<variant, peer, mounted, timers, cleared>>
       /\ UNCHANGED identity

\* fetch rejects: the call could not be completed
FetchReject(r) ==
    /\ r.stage = "fetch"
    /\ Resume(r, [kind |-> "reject", message |-> FetchFailedMsg])

\* fetch resolves with a response of some status
FetchRespond(r, status) ==
    /\ r.stage = "fetch"
    /\ Resume(r, [kind |-> "resolve", status |-> status])

\* res.text() resolves
TextResolve(r, text) ==
    /\ r.stage = "text"
    /\ Resume(r, [kind |-> "resolve", text |-> text])

\* res.text() rejects: the body could not be read
TextReject(r) ==
    /\ r.stage = "text"
    /\ Resume(r, [kind |-> "reject", message |-> BodyFailedMsg])

\* res.json() resolves with the parsed body
JsonResolve(r, data) ==
    /\ r.stage = "json"
    /\ Resume(r, [kind |-> "resolve", data |-> data])

\* res.json() rejects: the body could not be read or is not JSON
JsonReject(r, msg) ==
    /\ r.stage = "json"
    /\ Resume(r, [kind |-> "reject", message |-> msg])

\* the page is reloaded: a new component instance, storage kept
Reload ==
    /\ mounted
    /\ mounted' = FALSE
    /\ message' = InitialComponent.message
    /\ conversation' = InitialComponent.conversation
    /\ error' = InitialComponent.error
    /\ isLoading' = InitialComponent.isLoading
    /\ sessionId' = InitialComponent.sessionId
    /\ userId' = InitialComponent.userId
    /\ requests' = {}
    /\ timers' = << >>
    /\ journal' = [fn |-> "reload"]
    /\ UNCHANGED <<variant, peer, sessionStorage, localStorage, returned, generated,
                   issued, cleared>>

\* the user clears the site data of one storage scope, between two loads of
\* the page
ClearSession ==
    /\ ~mounted
    /\ cleared < MaxClears
    /\ cleared' = cleared + 1
    /\ sessionStorage[SessionKey] # JNull
    /\ sessionStorage' = [k \in StorageKeys |-> JNull]
    /\ returned' = [returned EXCEPT !.session = JNull]
    /\ journal' = [fn |-> "clear"]
    /\ UNCHANGED <<variant, peer, mounted, message, conversation, error, isLoading,
                   sessionId, userId, localStorage, requests, timers, issued,
                   generated>>

ClearLocal ==
    /\ ~mounted
    /\ cleared < MaxClears
    /\ cleared' = cleared + 1
    /\ localStorage[UserKey] # JNull
    /\ localStorage' = [k \in StorageKeys |-> JNull]
    /\ returned' = [returned EXCEPT !.user = JNull]
    /\ journal' = [fn |-> "clear"]
    /\ UNCHANGED <<variant, peer, mounted, message, conversation, error, isLoading,
                   sessionId, userId, sessionStorage, requests, timers, issued,
                   generated>>

\* the steps of the component as its presentation layer drives it, when
\* the user acts only once the mount effect has run and the component has
\* rendered again with the identifiers
Next ==
    \/ Mount
    \/ \E text \in Inputs : mounted /\ Type(text)
    \/ mounted /\ HandleSubmit
    \/ \E prompt \in Prompts : mounted /\ HandlePromptClick(prompt)
    \/ TimerFire
    \/ \E r \in requests : FetchReject(r)
    \/ \E r \in requests, status \in Statuses : FetchRespond(r, status)
    \/ \E r \in requests, text \in ErrorTexts : TextResolve(r, text)
    \/ \E r \in requests : TextReject(r)
    \/ \E r \in requests, data \in JsonBodies : JsonResolve(r, data)
    \/ \E r \in requests, msg \in {BodyFailedMsg, JsonSyntaxMsg} : JsonReject(r, msg)
    \/ Reload

Spec == Init /\ [][Next]_vars

\* the controller driven by a caller of submit instead of the form and the
\* prompt buttons
NextCtl ==
    \/ Mount
    \/ \E text \in Inputs : mounted /\ Type(text)
    \/ \E input \in DirectInputs : Submit(input)
    \/ \E r \in requests : FetchReject(r)
    \/ \E r \in requests, status \in Statuses : FetchRespond(r, status)
    \/ \E r \in requests, text \in ErrorTexts : TextResolve(r, text)
    \/ \E r \in requests : TextReject(r)
    \/ \E r \in requests, data \in JsonBodies : JsonResolve(r, data)
    \/ \E r \in requests, msg \in {BodyFailedMsg, JsonSyntaxMsg} : JsonReject(r, msg)

SpecCtl == Init /\ [][NextCtl]_vars

\* a promise the call numbered id awaits settles
Settle(id) ==
    \E r \in requests :
        /\ r.id = id
        /\ \/ FetchReject(r)
           \/ \E status \in Statuses : FetchRespond(r, status)
           \/ \E text \in ErrorTexts : TextResolve(r, text)
           \/ TextReject(r)
           \/ \E data \in JsonBodies : JsonResolve(r, data)
           \/ \E msg \in {BodyFailedMsg, JsonSyntaxMsg} : JsonReject(r, msg)

\* The mount effect of the second instance, in its own tab, runs getUserId
\* on the shared localStorage.  Nothing orders the two tabs, so its
\* getItem and its setItem are two steps.
PeerGetItem ==
    /\ peer.pc = "start"
    /\ LET id == UsableId(localStorage[UserKey])
       IN IF ~Truthy(id)
          THEN /\ peer' = [pc |-> "setItem",
                           userId |-> FreshId(NthUuid(generated + 1))]
               /\ generated' = generated + 1
          ELSE /\ peer' = [pc |-> "done", userId |-> id.v]
               /\ generated' = generated
    /\ journal' = [fn |-> "peer"]
    /\ UNCHANGED <<variant, mounted, message, conversation, error, isLoading,
                   sessionId, userId, sessionStorage, localStorage, requests,
                   timers, issued, cleared, returned>>

PeerSetItem ==
    /\ peer.pc = "setItem"
    /\ localStorage' = [localStorage EXCEPT ![UserKey] = JStr(peer.userId)]
    /\ peer' = [peer EXCEPT !.pc = "done"]
    /\ journal' = [fn |-> "peer"]
    /\ UNCHANGED <<variant, mounted, message, conversation, error, isLoading,
                   sessionId, userId, sessionStorage, requests, timers, issued,
                   cleared, returned, generated>>

\* two instances on one device initialise
NextTabs ==
    \/ Mount
    \/ PeerGetItem
    \/ PeerSetItem

SpecTabs == InitIds /\ [][NextTabs]_vars

\* The steps of the component from its first render on.  The prompt buttons
\* are rendered with the handlers of the first render, which hold
\* userId = "" and sessionId = "", and the mount effect (useEffect) runs
\* only after that render is committed; a click handled in between defers a
\* submitMessage that keeps those values.  The draft is blank on the first
\* render, so the submit button is disabled until a later render.
NextFirstRender ==
    \/ Mount
    \/ \E text \in Inputs : mounted /\ Type(text)
    \/ mounted /\ HandleSubmit
    \/ \E prompt \in Prompts : HandlePromptClick(prompt)
    \/ TimerFire
    \/ \E id \in 1..MaxSubmits : Settle(id)
    \/ Reload

SpecFirstRender == Init /\ [][NextFirstRender]_vars

\* the controller driven by submit calls alone (the draft is never typed)
NextLive ==
    \/ Mount
    \/ \E input \in DirectInputs : Submit(input)
    \/ \E id \in 1..MaxSubmits : Settle(id)

\* ... when every promise a call awaits settles in the end
SpecLive ==
    /\ Init
    /\ [][NextLive]_vars
    /\ \A id \in 1..MaxSubmits : WF_vars(Settle(id))

\* the life of the Identity Store alone: loads, reloads and cleared storage
NextIds ==
    \/ ServerCall
    \/ Mount
    \/ Reload
    \/ ClearSession
    \/ ClearLocal

SpecIds == InitIds /\ [][NextIds]_vars

(****************************** claims *************************************)
\* the text s contains the text sub
Contains(s, sub) ==
    \E i \in 0..(Len(s) - Len(sub)) : SubSeq(s, i + 1, i + Len(sub)) = sub

\* the user Message a suspended call appended when it was accepted
UserMessageOf(r) == r.payload.data.message

\* data.output_data.content when reading it does not throw, else undefined
ContentOf(data) ==
    IF CanGet(data) /\ CanGet(Get(data, "output_data"))
    THEN Get(Get(data, "output_data"), "content")
    ELSE JUndefined

\* the last step was an accepted call of submitMessage
AcceptedSubmit(j) == j.fn = "submitMessage" /\ Truthy(JStr(Trim(j.input)))

\* the last step was a call of submitMessage with a blank input
BlankSubmit(j) == j.fn = "submitMessage" /\ ~Truthy(JStr(Trim(j.input)))

\* the last step resumed a call with the parsed body of a 2xx response
JsonResolved(j) ==
    j.fn = "resume" /\ j.req.stage = "json" /\ j.ev.kind = "resolve"

\* the last step ended a call whose response had a non-2xx status
Non2xxEnded(j) ==
    /\ j.fn = "resume"
    /\ \/ j.req.stage = "fetch" /\ j.ev.kind = "resolve" /\ ~ResOk(j.ev.status)
             /\ j.ops[Len(j.ops)].op = "return"
       \/ j.req.stage = "text"

\* the status of the response of such a call
Non2xxStatus(j) == IF j.req.stage = "text" THEN j.req.status ELSE j.ev.status

\* the last step ended a call on one of its failures
FailureEnded(j) ==
    /\ j.fn = "resume"
    /\ \/ j.ev.kind = "reject"
       \/ Non2xxEnded(j)
       \/ JsonResolved(j) /\ ~CanGet(j.ev.data)

\* C1: at most one submission is in flight at any time (never two
\* outstanding network calls).
C1_SingleFlight == Cardinality(requests) <= 1

\* C2: an accepted submit runs exactly one append of the user Message with
\* the trimmed input and exactly one fetch, the append before the fetch, and
\* the conversation is then the one before the call plus that Message.
C2_UserAppendBeforeFetch ==
    AcceptedSubmit(journal) =>
        LET ops == journal.ops
            appends == {i \in DOMAIN ops : ops[i].op = "appendConversation"}
            fetches == {i \in DOMAIN ops : ops[i].op = "fetch"}
            msg == [role |-> "user", content |-> JStr(Trim(journal.input))]
        IN /\ Cardinality(appends) = 1
           /\ Cardinality(fetches) = 1
           /\ \A i \in appends, k \in fetches : i < k /\ ops[i].v = msg
           /\ \E r \in requests :
                 /\ r.id = issued
                 /\ r.stage = "fetch"
                 /\ conversation = Append(r.before, msg)

\* C2 witness: an input padded with whitespace was accepted.
C2_Witness ==
    /\ AcceptedSubmit(journal)
    /\ journal.input = <<" ", "h", "i", "\t">>
    /\ conversation[Len(conversation)].content = JStr(<<"h", "i">>)

\* C3: a call of submit with an empty or whitespace-only input changes
\* neither the conversation, isLoading, lastError nor the draft text, and
\* issues no network call.
C3_BlankIsNoOp ==
    [][BlankSubmit(journal') =>
          /\ journal'.ops = << >>
          /\ UNCHANGED <<message, conversation, error, isLoading, requests, issued>>]_vars

\* C3 witness: a blank submit while an earlier failure's error is shown, a
\* draft is typed and another call is in flight.
C3_Witness ==
    /\ BlankSubmit(journal)
    /\ journal.input = <<"\t", "\n">>
    /\ error # JNull
    /\ message = <<" ", "h", "i", "\t">>
    /\ requests # {}

\* C4: when an accepted submission gets a 2xx response whose
\* output_data.content is the string c, the conversation is then the one
\* before the submit plus {user, trimmed input} and {agent, c}, isLoading is
\* false and lastError is unset.
C4_SuccessPath ==
    (JsonResolved(journal) /\ ContentOf(journal.ev.data).t = "str") =>
        /\ conversation =
              journal.req.before \o
                 << [role |-> "user", content |-> JStr(Trim(journal.req.input))],
                    [role |-> "agent", content |-> ContentOf(journal.ev.data)] >>
        /\ isLoading = FALSE
        /\ error = JNull

\* C5: when the response has a non-2xx status the call ends with no agent
\* Message appended, its user Message still in the conversation, lastError a
\* non-empty string containing the status code, and isLoading false.
C5_UpstreamFailure ==
    [][Non2xxEnded(journal') =>
          /\ conversation' = conversation
          /\ \E i \in DOMAIN conversation' :
                conversation'[i] = UserMessageOf(journal'.req)
          /\ error'.t = "str"
          /\ Len(error'.v) > 0
          /\ Contains(error'.v, Digits(Non2xxStatus(journal')))
          /\ isLoading' = FALSE]_vars

\* the parsed body is an object without output_data, with a null one, or
\* with one that has no content field
LacksContent(data) ==
    /\ data.t = "obj"
    /\ \/ "output_data" \notin DOMAIN data.f
       \/ data.f["output_data"] = JNull
       \/ /\ data.f["output_data"].t = "obj"
          /\ "content" \notin DOMAIN data.f["output_data"].f

C7_FailuresCaught ==
    [][FailureEnded(journal') =>
          /\ journal'.ops[Len(journal'.ops)].op = "return"
          /\ journal'.req \notin requests'
          /\ Truthy(error')
          /\ conversation' = conversation
          /\ \E i \in DOMAIN conversation' :
                conversation'[i] = UserMessageOf(journal'.req)]_vars

\* C7 witnesses: a transport failure, a body that is not JSON and a body
\* that could not be read have all been caught.
C7_Witness ==
    /\ FailureEnded(journal)
    /\ journal.req.stage = "json"
    /\ journal.ev.kind = "reject"
    /\ error = JStr(JsonSyntaxMsg)
    /\ conversation # << >>

\* C8: whenever no submission is in flight isLoading is false, and it is
\* false before the first accepted submit.
C8_LoadingReset ==
    /\ requests = {} => isLoading = FALSE
    /\ issued = 0 => isLoading = FALSE

\* C8 witness: a submission has ended on a failure and nothing is in flight.
C8_Witness ==
    /\ FailureEnded(journal)
    /\ requests = {}
    /\ isLoading = FALSE

\* C9: while a submission is unresolved nothing is appended after its user
\* Message: the user Message of the next submission never precedes the
\* resolution of this one.
C9_SerialAppends ==
    \A r \in requests : conversation = Append(r.before, UserMessageOf(r))

\* C10: a call of getSessionId (getUserId) that follows an earlier call with
\* no clearing of its storage in between returns the same value and leaves
\* the stored value unchanged.
C10_IdentityIdempotent ==
    [][journal'.fn = "mount" =>
          /\ returned.session # JNull =>
                /\ sessionId' = returned.session.v
                /\ sessionStorage' = sessionStorage
          /\ returned.user # JNull =>
                /\ userId' = returned.user.v
                /\ localStorage' = localStorage]_vars

\* C10 witness: both getters were called a second time, after a first call
\* that had to generate the identifiers.
C10_Witness ==
    /\ journal.fn = "mount"
    /\ journal.again.session
    /\ journal.again.user
    /\ sessionId = FreshId(NthUuid(1))
    /\ userId = FreshId(NthUuid(2))

\* a stored value longer than the identifier cap
OverLong(item) == item.t = "str" /\ Len(item.v) > 32

\* C11: when the value stored under a getter's key is longer than 32
\* characters, the getter's next call generates an identifier, returns it
\* with at most 32 characters and different from the stored value, and
\* stores it in place of the over-long value.
C11_Regeneration ==
    [][journal'.fn = "mount" =>
          /\ OverLong(sessionStorage[SessionKey]) =>
                /\ journal'.session.generated = 1
                /\ generated' > generated
                /\ Len(sessionId') <= 32
                /\ sessionId' # sessionStorage[SessionKey].v
                /\ sessionStorage'[SessionKey] = JStr(sessionId')
          /\ OverLong(localStorage[UserKey]) =>
                /\ journal'.user.generated = 1
                /\ generated' > generated
                /\ Len(userId') <= 32
                /\ userId' # localStorage[UserKey].v
                /\ localStorage'[UserKey] = JStr(userId')]_vars

\* C11 witness: both getters found a 33-character value and replaced it.
C11_Witness ==
    /\ journal.fn = "mount"
    /\ OverLong(journal.stored.session)
    /\ OverLong(journal.stored.user)
    /\ Len(sessionId) = 32
    /\ Len(userId) = 32
    /\ sessionStorage[SessionKey] = JStr(sessionId)
    /\ localStorage[UserKey] = JStr(userId)

\* C12: every request carries the sessionId and userId of its component
\* instance, which are the values the getters returned; once a getter has
\* returned a value, a reload with the storage kept makes it return that
\* value again, so the requests of the new instance carry the identifiers of
\* the old one; and the new instance starts with an empty conversation.
C12_IdentifierReuse ==
    /\ [](\A r \in requests :
             /\ r.payload.session_id = sessionId
             /\ r.payload.user_id = userId
             /\ JStr(r.payload.session_id) = returned.session
             /\ JStr(r.payload.user_id) = returned.user)
    /\ [][/\ returned.session # JNull => returned'.session = returned.session
          /\ returned.user # JNull => returned'.user = returned.user]_vars
    /\ [][journal'.fn = "reload" => conversation' = << >>]_vars

\* C13: the body of the call an accepted submit issues holds, under data,
\* the one Message that submit has just appended (role user, the trimmed
\* input) and nothing of the earlier conversation, with stateful true,
\* stream false, verbose false, and the instance's userId and sessionId as
\* user_id and session_id; a suspended call keeps that body.
C13_RequestPayload ==
    /\ AcceptedSubmit(journal) =>
          \E r \in requests :
              /\ r.id = issued
              /\ r.payload = journal.ops[Len(journal.ops)].v
              /\ r.payload.data.message = conversation[Len(conversation)]
    /\ \A r \in requests :
          /\ DOMAIN r.payload =
                {"data", "stateful", "stream", "user_id", "session_id", "verbose"}
          /\ DOMAIN r.payload.data = {"message"}
          /\ r.payload.data.message =
                [role |-> "user", content |-> JStr(Trim(r.input))]
          /\ r.payload.stateful = TRUE
          /\ r.payload.stream = FALSE
          /\ r.payload.verbose = FALSE
          /\ r.payload.user_id = userId
          /\ r.payload.session_id = sessionId
          /\ JStr(r.payload.user_id) = localStorage[UserKey]
          /\ JStr(r.payload.session_id) = sessionStorage[SessionKey]

\* C14: every step leaves the conversation as it is or adds exactly one
\* Message at its end; a step that is a load of the component leaves it
\* empty, and it is empty when the page is first opened.
C14_AppendOnly ==
    /\ [][IF journal'.fn = "reload"
          THEN conversation' = << >>
          ELSE \/ conversation' = conversation
               \/ /\ Len(conversation') = Len(conversation) + 1
                  /\ SubSeq(conversation', 1, Len(conversation)) = conversation]_vars
    /\ [](journal.fn = "init" => conversation = << >>)

\* C14 witness: two exchanges have been appended, one after the other.
C14_Witness ==
    /\ Len(conversation) = 4
    /\ conversation[1].role = "user"
    /\ conversation[2].role = "agent"
    /\ conversation[3].role = "user"
    /\ conversation[4].role = "agent"

\* the number of fetch calls among the effects of a step
FetchesOf(j) ==
    IF j.fn \in {"submitMessage", "resume"}
    THEN Cardinality({i \in DOMAIN j.ops : j.ops[i].op = "fetch"})
    ELSE 0

\* C15: a step issues exactly one network call when it is an accepted
\* submit and none otherwise (a blank submit, the end of a call on a
\* failure or on a success, any other step), so the calls issued so far
\* are as many as the accepted submits.
C15_OneCallPerSubmit ==
    [][LET n == IF AcceptedSubmit(journal') THEN 1 ELSE 0
       IN /\ issued' = issued + n
          /\ FetchesOf(journal') = n
          /\ Cardinality(requests') <= Cardinality(requests) + n]_vars

\* C15 witness: the only submission has ended on a failure and no call is
\* in flight.
C15_Witness ==
    /\ FailureEnded(journal)
    /\ issued = 1
    /\ requests = {}
    /\ Truthy(error)

\* the last step ended a call on the success path (an agent Message was
\* appended)
SuccessEnded(j) == JsonResolved(j) /\ CanGet(j.ev.data)

\* C16 as stated: within a component instance, a set lastError becomes
\* unset only in a step that completes a submission successfully.
C16_ErrorUntilSuccess ==
    [][(journal'.fn # "reload" /\ error # JNull /\ error' = JNull) =>
          SuccessEnded(journal')]_vars

\* C16 amended: within a component instance, a set lastError stays set
\* until the next accepted submit, which clears it on entering Submitting;
\* no other step unsets it, the successful completion of a call included.
C16_ErrorUntilNextSubmit ==
    [][(journal'.fn # "reload" /\ error # JNull /\ error' = JNull) =>
          AcceptedSubmit(journal')]_vars

\* C16 witness: a first submission has failed (its user Message has no
\* answer), and the accepted submit that followed has cleared the error.
C16_Witness ==
    /\ AcceptedSubmit(journal)
    /\ error = JNull
    /\ Len(conversation) = 2
    /\ conversation[1].role = "user"
    /\ conversation[2].role = "user"
    /\ Cardinality(requests) = 1

\* C17: a call of getSessionId or getUserId where there is no window
\* returns the empty string, reads no storage key, writes none and
\* generates no identifier, whatever the storage of the browser holds.
C17_NoWindowNoOp ==
    [][journal'.fn = "server" =>
          /\ \A g \in {journal'.session, journal'.user} :
                /\ g.ret = << >>
                /\ g.reads = << >>
                /\ g.writes = << >>
                /\ g.generated = 0
          /\ sessionStorage' = sessionStorage
          /\ localStorage' = localStorage
          /\ generated' = generated]_vars

\* C17 witness: the getters were called without a window over a storage in
\* which a call in the browser generates both identifiers.
C17_Witness ==
    /\ journal.fn = "server"
    /\ journal.session.ret = << >>
    /\ journal.user.ret = << >>
    /\ sessionStorage[SessionKey] = JNull
    /\ OverLong(localStorage[UserKey])
    /\ generated = 0

\* The effects of a step as the four variants are compared on them: what
\* is appended, the draft, isLoading, whether lastError is set or unset, the
\* calls issued and ended.  The text of the error message is left out, and
\* so is the suspension at an await, which changes nothing of these.
Visible(ops) ==
    LET Shown(o) == o.op # "await"
        erased == [i \in DOMAIN ops |->
                     IF ops[i].op = "setError"
                     THEN [op |-> "setError", v |-> JBool(ops[i].v # JNull)]
                     ELSE ops[i]]
    IN SelectSeq(erased, Shown)

\* What the component of src/pages/index.js runs on the network outcome the
\* step j handled.  A response with a non-2xx status is one outcome: a
\* variant that reads its body has handled it when the body read settles,
\* not yet when the status line arrives.
ReferenceOps(j) ==
    LET r == j.req
        ev == j.ev
        failed == [kind |-> "resolve", status |-> r.status]
    IN CASE r.stage = "text" ->
                ResumeOps("index", [r EXCEPT !.stage = "fetch"], failed)
         [] r.stage = "fetch" /\ ev.kind = "resolve" /\ ~ResOk(ev.status)
               /\ ReadsErrorText(variant) -> << >>
         [] OTHER -> ResumeOps("index", r, ev)

\* C18: on every network outcome each variant runs, from the same state,
\* the effects the component of src/pages/index.js runs, up to the text of
\* the error message; the submit step is the same code in the four.
C18_VariantsAgree ==
    [][journal'.fn = "resume" =>
          Visible(journal'.ops) = Visible(ReferenceOps(journal'))]_vars

\* C18 witness: the variant that reads the body of a failed response has
\* ended a call on it, with another message than the other variants show.
C18_Witness ==
    /\ variant = "part001b"
    /\ journal.fn = "resume"
    /\ journal.req.stage = "text"
    /\ journal.ev.kind = "resolve"
    /\ error = JStr(ServerErrorTextMsg(500, <<"Bad Gateway">>))
    /\ error # JStr(ServerErrorMsg(500))
    /\ isLoading = FALSE

\* C19: when a 2xx response is handled on the success path, the agent
\* Message appended holds output_data.content itself whenever that is
\* present and not null (the empty string included), and the fallback text
\* only when it is absent or null.
C19_ContentVerbatim ==
    SuccessEnded(journal) =>
        LET c == ContentOf(journal.ev.data)
        IN conversation[Len(conversation)] =
              [role |-> "agent",
               content |-> IF c.t \in {"null", "undefined"}
                           THEN JStr(FallbackText)
                           ELSE c]

\* C20: while a submission is in flight (its user Message appended, the
\* call not yet resolved) lastError is unset.
C20_NoErrorWhileSubmitting == requests # {} => error = JNull

\* C21: driven by the form and the prompt buttons alone, no call of
\* submitMessage starts while isLoading is true or a request is in flight.
C21_NoSubmitWhileLoading ==
    [][journal'.fn = "submitMessage" => (~isLoading /\ requests = {})]_vars

\* a stored string of lo..32 characters
StoredWithin(item, lo) == item.t = "str" /\ Len(item.v) >= lo /\ Len(item.v) <= 32

\* what one getter call did, from the step's journal: g is the call, item
\* the value it found under key, before and after its storage around it
WritesAsItShould(g, item, key, before, after) ==
    /\ g.writes = IF g.generated = 1 THEN <<key>> ELSE << >>
    /\ g.generated = IF StoredWithin(item, 1) THEN 0 ELSE 1
    /\ after = IF g.generated = 1
               THEN [before EXCEPT ![key] = JStr(g.ret)]
               ELSE before
    /\ \A k \in DOMAIN before \ {key} : after[k] = before[k]

\* C22: a getter call that finds a stored value of 1..32 characters writes
\* nothing; any other call in the browser regenerates and writes exactly
\* once, under its own key of its own storage, and the storage of the other
\* getter changes only by that getter's own write.
C22_WriteOncePerRegeneration ==
    [][journal'.fn = "mount" =>
          /\ WritesAsItShould(journal'.session, sessionStorage[SessionKey],
                              "sessionId", sessionStorage, sessionStorage')
          /\ WritesAsItShould(journal'.user, localStorage[UserKey],
                              "userId", localStorage, localStorage')
          /\ generated' = generated + journal'.session.generated
                                    + journal'.user.generated]_vars

\* C22 witness: getSessionId regenerated and wrote, getUserId found a
\* 32-character value and wrote nothing.
C22_Witness ==
    /\ journal.fn = "mount"
    /\ journal.session.writes = <<"sessionId">>
    /\ journal.user.writes = << >>
    /\ journal.stored.session = JStr(<< >>)
    /\ Len(userId) = 32
    /\ journal.stored.user = localStorage[UserKey]
    /\ localStorage[SessionKey] = JNull

\* what one getter call returned: non-empty, at most 32 characters, without
\* a hyphen when generated, now stored under key, and the stored value
\* itself when that was a string of lo..32 characters
ReturnsAsItShould(g, item, key, after, lo) ==
    /\ Len(g.ret) >= 1
    /\ Len(g.ret) <= 32
    /\ g.generated = 1 => ~Contains(g.ret, <<"-">>)
    /\ after[key] = JStr(g.ret)
    /\ StoredWithin(item, lo) => (g.ret = item.v /\ g.generated = 0)

\* C23 as stated: a stored value that is present with at most 32
\* characters, the empty string included, is returned unchanged.
C23_ReturnedIdentifier ==
    [][journal'.fn = "mount" =>
          /\ ReturnsAsItShould(journal'.session, sessionStorage[SessionKey],
                               "sessionId", sessionStorage', 0)
          /\ ReturnsAsItShould(journal'.user, localStorage[UserKey],
                               "userId", localStorage', 0)]_vars

\* C23 amended: a stored value of 1..32 characters is returned unchanged;
\* a stored empty string is replaced like an absent value.
C23_ReturnedIdentifierNonEmpty ==
    [][journal'.fn = "mount" =>
          /\ ReturnsAsItShould(journal'.session, sessionStorage[SessionKey],
                               "sessionId", sessionStorage', 1)
          /\ ReturnsAsItShould(journal'.user, localStorage[UserKey],
                               "userId", localStorage', 1)]_vars

\* C23 witness: getSessionId found an empty string and returned a generated
\* identifier, getUserId returned the two characters it found.
C23_Witness ==
    /\ journal.fn = "mount"
    /\ journal.stored.session = JStr(<< >>)
    /\ journal.session.generated = 1
    /\ Len(sessionId) = 32
    /\ journal.stored.user = JStr(<<"u", "1">>)
    /\ userId = <<"u", "1">>

\* the call numbered id has just ended, isLoading is false, and its agent
\* Message is the last one or lastError is set
Ended(id) ==
    /\ journal.fn = "resume"
    /\ journal.req.id = id
    /\ \A r \in requests : r.id # id
    /\ isLoading = FALSE
    /\ IF SuccessEnded(journal)
       THEN conversation[Len(conversation)] =
               [role |-> "agent", content |-> AgentReply(journal.ev.data)]
       ELSE Truthy(error)

\* C24: when every promise a call awaits settles, every accepted submission
\* reaches a state in which it has ended with isLoading false and its agent
\* Message appended or lastError set; and nothing but the settling of its
\* own promise ends a call (no timeout, no cancellation).
C24_EventuallyIdle ==
    /\ \A id \in 1..MaxSubmits : (\E r \in requests : r.id = id) ~> Ended(id)
    /\ [][\A r \in requests :
             (\A q \in requests' : q.id # r.id) =>
                 (journal'.fn = "resume" /\ journal'.req.id = r.id)]_vars

\* C24 witness: the second submission has ended on the success path after
\* the first one failed.
C24_Witness ==
    /\ Ended(2)
    /\ SuccessEnded(journal)
    /\ Truthy(error)
    /\ requests = {}

\* C25: every entry of the conversation has the role user or agent and a
\* string as content, whatever the body of a 2xx response holds.
C25_CompleteMessages ==
    \A i \in DOMAIN conversation :
        /\ conversation[i].role \in {"user", "agent"}
        /\ conversation[i].content.t = "str"

\* C26: isLoading is true whenever a network call is outstanding.
C26_LoadingWhileOutstanding == requests # {} => isLoading = TRUE

\* C29: the step that ends a submission, on the success path or on a
\* failure, leaves the draft input text as it was.
C29_DraftPreserved ==
    [][(journal'.fn = "resume" /\ journal'.req \notin requests'
           /\ \A q \in requests' : q.id # journal'.req.id) =>
          message' = message]_vars

\* the entries of the conversation with the given role
WithRole(role) == {i \in DOMAIN conversation : conversation[i].role = role}

\* C30: the conversation is empty or starts with a user Message, holds no
\* two agent Messages in a row, and holds at most as many agent Messages as
\* user Messages; a step adds an agent Message exactly when it ends a
\* submission on the success path.
C30_ConversationShape ==
    /\ [](/\ conversation # << >> => conversation[1].role = "user"
          /\ \A i \in DOMAIN conversation :
                (i > 1 /\ conversation[i].role = "agent") =>
                    conversation[i - 1].role = "user"
          /\ Cardinality(WithRole("agent")) <= Cardinality(WithRole("user")))
    /\ [][journal'.fn # "reload" =>
             Cardinality(WithRole("agent"))' =
                Cardinality(WithRole("agent"))
                   + (IF SuccessEnded(journal') THEN 1 ELSE 0)]_vars

\* C27: every request carries a non-empty user_id and a non-empty
\* session_id, the values the Identity Store holds.
C27_IdentifiersInEveryRequest ==
    \A r \in requests :
        /\ r.payload.user_id # << >>
        /\ r.payload.session_id # << >>
        /\ JStr(r.payload.user_id) = localStorage[UserKey]
        /\ JStr(r.payload.session_id) = sessionStorage[SessionKey]

\* C28: once both instances have initialised they hold the same user
\* identifier, the one stored under "userId".
C28_SameUserAcrossInstances ==
    (mounted /\ peer.pc = "done") =>
        /\ userId = peer.userId
        /\ JStr(userId) = localStorage[UserKey]
        /\ JStr(peer.userId) = localStorage[UserKey]

====
